---- MODULE Spec2Model ----
(***************************************************************************)
(* Model of auth/tokenstore.go: the TokenStore interface and its two       *)
(* implementations, inMemoryTokenStore (a map of maps behind a             *)
(* sync.RWMutex) and vaultTokenStore (a stateless adapter over the Vault   *)
(* logical API).                                                           *)
(***************************************************************************)
EXTENDS Integers, Sequences, FiniteSets, TLC

\* ------------------------------------------------------------------ bounds
NumCallers == 2
MaxCalls == 3

Callers == 1..NumCallers
Users   == {"alice", "bob"}
Tokens  == {"", "tok-1"}
RTokens == {"tok-1", "tok-2"}                  \* the tokenIDs sent to Vault
Errors  == {"connection refused", "permission denied"}
SUsers  == {"", "alice"}                       \* with the empty userId
STokens == {"", "tok-1"}
PUsers  == {"a", "a/b", "b"}                    \* with and without "/"
PTokens == {"c", "b/c", ""}

\* ------------------------------------------------------------------ values
Nil      == "nil"                              \* Go's nil error / nil pointer
NoResult == [pending |-> TRUE]                 \* the call has not returned
NoOp     == [name |-> "none", userId |-> "", token |-> ""]
EmptyMap == [k \in {} |-> ""]                  \* make(map[string]string)
NilSlice == [isNil |-> TRUE, items |-> <<>>]   \* a nil []string
NoTokens == [t \in Tokens |-> "none"]
NoSlice  == [isNil |-> TRUE, array |-> 0, len |-> 0, userId |-> ""]
NoCall   == [name |-> "none", userId |-> "", token |-> "", caller |-> 0]

VARIABLES
    store,       \* tokenStore.store: userId -> reference of the user's map
    heap,        \* the allocated map[string]string objects, by reference
    wOwner,      \* RWMutex: the caller holding the writer side, or 0
    readers,     \* RWMutex: the callers holding the reader side
    pc,          \* each caller's position
    op,          \* each caller's current (or last) call
    userTokens,  \* Store's local variable userTokens (a reference), or 0
    ret,         \* each caller's returned (value, error), NoResult in flight
    hist,        \* history: per (userId, token) "stored" / "stored2" /
                 \*   "revoked" / "none"
    seen,        \* history: hist's row as it was when Lookup/List read the map
    everStored,  \* history: the userIds some Store has been called with
    raced,       \* history: the caller's Store raced to create the user's map
    ncalls,      \* the number of calls made so far
    vault,       \* the secret service: path -> the data written there
    rpc,         \* the vaultTokenStore caller's position
    rop,         \* the vaultTokenStore caller's current (or last) call
    req,         \* the request sent to the secret service
    resp,        \* the secret service's answer: (secret, error)
    svcCalls,    \* the requests the current call has sent
    rret,        \* what the vaultTokenStore call did: returned or panicked
    lret,        \* the inMemoryTokenStore result of the same call
    arrays,      \* the backing arrays of the slices List has returned
    held,        \* each caller's slice, as List returned it to them
    sop,         \* the last call or slice write made one at a time
    sret,        \* what that call returned
    pin,         \* two (userId, tokenID) pairs given to tokenPath
    pout         \* the two paths tokenPath made of them

localVars == <<store, heap, wOwner, readers, pc, op, userTokens, ret>>
histVars  == <<hist, seen, everStored, raced, ncalls>>
remoteVars == <<vault, rpc, rop, req, resp, svcCalls, rret, lret>>
seqVars   == <<arrays, held, sop, sret>>
pathVars  == <<pin, pout>>
vars      == <<store, heap, wOwner, readers, pc, op, userTokens, ret,
               hist, seen, everStored, raced, ncalls,
               vault, rpc, rop, req, resp, svcCalls, rret, lret,
               arrays, held, sop, sret, pin, pout>>

\* --------------------------------------------------------- map primitives
\* m[k] = v on a Go map
MapPut(m, k, v) == [x \in (DOMAIN m) \cup {k} |-> IF x = k THEN v ELSE m[x]]

\* delete(m, k)
MapDelete(m, k) == [x \in (DOMAIN m) \ {k} |-> m[x]]

\* v, _ := m[k]: the zero value "" when k is absent
MapGet(m, k) == IF k \in DOMAIN m THEN m[k] ELSE ""

\* every order in which `for k := range m` may visit the keys
RECURSIVE RangeOrders(_)
RangeOrders(S) ==
    IF S = {} THEN {<<>>}
    ELSE UNION {{<<k>> \o s : s \in RangeOrders(S \ {k})} : k \in S}

\* the elements of a returned slice
Items(slice) == {slice.items[i] : i \in 1..Len(slice.items)}

\* ------------------------------------------------ inMemoryTokenStore bodies
\* NewInMemoryTokenStore
NewInMemoryTokenStore == [store |-> [u \in {} |-> 0], heap |-> <<>>]

\* StoreFind without the `!ok` test: a new map on every Store
StoreFind_AlwaysNew(st, hp, userId) ==
    [userTokens |-> Len(hp) + 1, heap |-> Append(hp, EmptyMap)]

\* Store, lines 45-49: look the user's map up, make a new one when absent
StoreFind(st, hp, userId) ==
    IF userId \in DOMAIN st
    THEN [userTokens |-> st[userId], heap |-> hp]
    ELSE [userTokens |-> Len(hp) + 1, heap |-> Append(hp, EmptyMap)]

\* StoreCommit refusing an empty userId or token
StoreCommit_RejectEmpty(st, hp, ut, userId, token) ==
    IF userId = "" \/ token = ""
    THEN [store |-> st, heap |-> hp,
          ret |-> [val |-> Nil, err |-> "empty argument"]]
    ELSE [store |-> MapPut(st, userId, ut),
          heap  |-> [hp EXCEPT ![ut] = MapPut(hp[ut], token, token)],
          ret   |-> [val |-> Nil, err |-> Nil]]

\* StoreCommit without line 51: the map is never put into tokenStore.store
StoreCommit_NoAssign(st, hp, ut, userId, token) ==
    [store |-> st,
     heap  |-> [hp EXCEPT ![ut] = MapPut(hp[ut], token, token)],
     ret   |-> [val |-> Nil, err |-> Nil]]

\* Store, lines 50-52: userTokens[token] = token; store[userId] = userTokens
StoreCommit(st, hp, ut, userId, token) ==
    [store |-> MapPut(st, userId, ut),
     heap  |-> [hp EXCEPT ![ut] = MapPut(hp[ut], token, token)],
     ret   |-> [val |-> Nil, err |-> Nil]]

\* Lookup, lines 58-62
LookupBody(st, hp, userId, token) ==
    IF userId \in DOMAIN st
    THEN [val |-> MapGet(hp[st[userId]], token), err |-> Nil]
    ELSE [val |-> "", err |-> Nil]

\* RevokeBody deleting the token from every user's map
RevokeBody_EveryUser(st, hp, userId, token) ==
    [heap |-> [i \in DOMAIN hp |-> MapDelete(hp[i], token)],
     ret  |-> [val |-> Nil, err |-> Nil]]

\* RevokeBody reporting an absent token as an error
RevokeBody_AbsentIsError(st, hp, userId, token) ==
    IF userId \in DOMAIN st /\ token \in DOMAIN hp[st[userId]]
    THEN [heap |-> [hp EXCEPT ![st[userId]] = MapDelete(hp[st[userId]], token)],
          ret  |-> [val |-> Nil, err |-> Nil]]
    ELSE [heap |-> hp, ret |-> [val |-> Nil, err |-> "token not found"]]

\* RevokeBody deleting the wrong key: delete(userTokens, userId)
RevokeBody_WrongKey(st, hp, userId, token) ==
    [heap |-> IF userId \in DOMAIN st
              THEN [hp EXCEPT ![st[userId]] = MapDelete(hp[st[userId]], userId)]
              ELSE hp,
     ret  |-> [val |-> Nil, err |-> Nil]]

\* Revoke, lines 68-71
RevokeBody(st, hp, userId, token) ==
    [heap |-> IF userId \in DOMAIN st
              THEN [hp EXCEPT ![st[userId]] = MapDelete(hp[st[userId]], token)]
              ELSE hp,
     ret  |-> [val |-> Nil, err |-> Nil]]

\* ListBody reporting an unknown user as an error
ListBody_UnknownUserError(st, hp, userId) ==
    IF userId \in DOMAIN st
    THEN {[val |-> [isNil |-> FALSE, items |-> s], err |-> Nil] :
            s \in RangeOrders(DOMAIN hp[st[userId]])}
    ELSE {[val |-> NilSlice, err |-> "unknown user"]}

\* List, lines 77-86: the possible results, one per iteration order
ListBody(st, hp, userId) ==
    IF userId \in DOMAIN st
    THEN {[val |-> [isNil |-> FALSE, items |-> s], err |-> Nil] :
            s \in RangeOrders(DOMAIN hp[st[userId]])}
    ELSE {[val |-> NilSlice, err |-> Nil]}

\* --------------------------------------------------------------- history
InFlight(c, name, userId, token) ==
    /\ pc[c] # "idle"
    /\ op[c].name = name /\ op[c].userId = userId /\ op[c].token = token

\* a Store of the pair has returned and no Revoke of it has been called since
IsStored(h) == h \in {"stored", "stored2"}

\* hist after a call of name(userId, token) has been made: a call in flight
\* voids what the other operation's return had established
HistCall(name, userId, token) ==
    CASE name = "Store" /\ hist[userId][token] = "revoked" ->
            [hist EXCEPT ![userId][token] = "none"]
      [] name = "Revoke" /\ IsStored(hist[userId][token]) ->
            [hist EXCEPT ![userId][token] = "none"]
      [] OTHER -> hist

\* hist after caller c's Store or Revoke has returned: "stored2" once a second
\* Store has returned with no Revoke called in between
HistReturn(c, name, userId, token) ==
    LET other == IF name = "Store" THEN "Revoke" ELSE "Store"
        mark  == IF name = "Revoke" THEN "revoked"
                 ELSE IF IsStored(hist[userId][token]) THEN "stored2"
                 ELSE "stored"
    IN IF \E d \in Callers \ {c} : InFlight(d, other, userId, token)
       THEN hist
       ELSE [hist EXCEPT ![userId][token] = mark]

\* the callers whose Store races with a new Store(userId, token) to create
\* the user's map
Racing(c, name, userId, token) ==
    IF name = "Store" /\ userId \notin DOMAIN store
    THEN {d \in Callers \ {c} :
            /\ pc[d] # "idle" /\ op[d].name = "Store"
            /\ op[d].userId = userId /\ op[d].token # token}
    ELSE {}

\* ------------------------------------------------------------ the callers
\* a caller invokes one of the four operations
Call(c) ==
    /\ pc[c] = "idle"
    /\ ncalls < MaxCalls
    /\ ncalls' = ncalls + 1
    /\ \E name \in {"Store", "Lookup", "Revoke", "List"}, userId \in Users,
          token \in Tokens :
        /\ name = "List" => token = ""
        /\ op' = [op EXCEPT ![c] = [name |-> name, userId |-> userId,
                                    token |-> token]]
        /\ hist' = HistCall(name, userId, token)
        /\ everStored' = IF name = "Store" THEN everStored \cup {userId}
                         ELSE everStored
        /\ LET r == Racing(c, name, userId, token)
           IN raced' = [d \in Callers |->
                          IF d = c THEN r # {} ELSE raced[d] \/ d \in r]
    /\ pc' = [pc EXCEPT ![c] = "lock"]
    /\ ret' = [ret EXCEPT ![c] = NoResult]
    /\ seen' = [seen EXCEPT ![c] = NoTokens]
    /\ UNCHANGED <<store, heap, wOwner, readers, userTokens>>
    /\ UNCHANGED remoteVars
    /\ UNCHANGED <<seqVars, pathVars>>

\* Lock that does not exclude: enters whoever holds the mutex
Lock_NoExclusion(c) ==
    /\ pc[c] = "lock"
    /\ op[c].name \in {"Store", "Revoke", "List"}
    /\ wOwner' = c
    /\ pc' = [pc EXCEPT ![c] = "cs"]
    /\ UNCHANGED <<store, heap, readers, op, userTokens, ret>>
    /\ UNCHANGED histVars
    /\ UNCHANGED remoteVars
    /\ UNCHANGED <<seqVars, pathVars>>

\* tokenStore.Lock(): take the writer side, then wait for the readers to leave
Lock(c) ==
    /\ pc[c] = "lock"
    /\ op[c].name \in {"Store", "Revoke", "List"}
    /\ wOwner = 0
    /\ wOwner' = c
    /\ pc' = [pc EXCEPT ![c] = IF readers = {} THEN "cs" ELSE "wwait"]
    /\ UNCHANGED <<store, heap, readers, op, userTokens, ret>>
    /\ UNCHANGED histVars
    /\ UNCHANGED remoteVars
    /\ UNCHANGED <<seqVars, pathVars>>

\* tokenStore.Lock(), second half: the last reader has left
LockReady(c) ==
    /\ pc[c] = "wwait"
    /\ readers = {}
    /\ pc' = [pc EXCEPT ![c] = "cs"]
    /\ UNCHANGED <<store, heap, wOwner, readers, op, userTokens, ret>>
    /\ UNCHANGED histVars
    /\ UNCHANGED remoteVars
    /\ UNCHANGED <<seqVars, pathVars>>

\* RLock without writer preference: blocks only behind a writer that is inside
RLock_NoWriterPreference(c) ==
    /\ pc[c] = "lock"
    /\ op[c].name = "Lookup"
    /\ IF wOwner = 0 \/ pc[wOwner] = "wwait"
       THEN /\ readers' = readers \cup {c}
            /\ pc' = [pc EXCEPT ![c] = "cs"]
       ELSE /\ readers' = readers
            /\ pc' = [pc EXCEPT ![c] = "rwait"]
    /\ UNCHANGED <<store, heap, wOwner, op, userTokens, ret>>
    /\ UNCHANGED histVars
    /\ UNCHANGED remoteVars
    /\ UNCHANGED <<seqVars, pathVars>>

\* RLock that does not wait for the writer
RLock_IgnoresWriter(c) ==
    /\ pc[c] = "lock"
    /\ op[c].name = "Lookup"
    /\ readers' = readers \cup {c}
    /\ pc' = [pc EXCEPT ![c] = "cs"]
    /\ UNCHANGED <<store, heap, wOwner, op, userTokens, ret>>
    /\ UNCHANGED histVars
    /\ UNCHANGED remoteVars
    /\ UNCHANGED <<seqVars, pathVars>>

\* tokenStore.RLock(): enter, or block behind a pending or active writer
RLock(c) ==
    /\ pc[c] = "lock"
    /\ op[c].name = "Lookup"
    /\ IF wOwner = 0
       THEN /\ readers' = readers \cup {c}
            /\ pc' = [pc EXCEPT ![c] = "cs"]
       ELSE /\ readers' = readers
            /\ pc' = [pc EXCEPT ![c] = "rwait"]
    /\ UNCHANGED <<store, heap, wOwner, op, userTokens, ret>>
    /\ UNCHANGED histVars
    /\ UNCHANGED remoteVars
    /\ UNCHANGED <<seqVars, pathVars>>

\* tokenStore.Unlock(): release the writer side and admit the blocked readers
Unlock(c, pcs) ==
    /\ wOwner' = 0
    /\ readers' = readers \cup {d \in Callers : pcs[d] = "rwait"}
    /\ pc' = [d \in Callers |->
                IF d = c THEN "idle"
                ELSE IF pcs[d] = "rwait" THEN "cs" ELSE pcs[d]]

\* tokenStore.RUnlock()
RUnlock(c, pcs) ==
    /\ readers' = readers \ {c}
    /\ pc' = [pcs EXCEPT ![c] = "idle"]
    /\ UNCHANGED wOwner

\* Store, lines 45-49, under the lock
StoreLookupUser(c) ==
    /\ pc[c] = "cs"
    /\ op[c].name = "Store"
    /\ LET f == StoreFind(store, heap, op[c].userId)
       IN /\ userTokens' = [userTokens EXCEPT ![c] = f.userTokens]
          /\ heap' = f.heap
    /\ pc' = [pc EXCEPT ![c] = "cs2"]
    /\ UNCHANGED <<store, wOwner, readers, op, ret>>
    /\ UNCHANGED histVars
    /\ UNCHANGED remoteVars
    /\ UNCHANGED <<seqVars, pathVars>>

\* Store, lines 50-52, and the deferred Unlock
Store(c) ==
    /\ pc[c] = "cs2"
    /\ op[c].name = "Store"
    /\ LET r == StoreCommit(store, heap, userTokens[c], op[c].userId,
                            op[c].token)
       IN /\ store' = r.store
          /\ heap' = r.heap
          /\ ret' = [ret EXCEPT ![c] = r.ret]
    /\ userTokens' = [userTokens EXCEPT ![c] = 0]
    /\ Unlock(c, pc)
    /\ hist' = HistReturn(c, "Store", op[c].userId, op[c].token)
    /\ UNCHANGED <<op, seen, everStored, raced, ncalls>>
    /\ UNCHANGED remoteVars
    /\ UNCHANGED <<seqVars, pathVars>>

\* Lookup, lines 58-62, and the deferred RUnlock
Lookup(c) ==
    /\ pc[c] = "cs"
    /\ op[c].name = "Lookup"
    /\ ret' = [ret EXCEPT ![c] =
                 LookupBody(store, heap, op[c].userId, op[c].token)]
    /\ RUnlock(c, pc)
    /\ seen' = [seen EXCEPT ![c] =
                  [NoTokens EXCEPT ![op[c].token] =
                                      hist[op[c].userId][op[c].token]]]
    /\ UNCHANGED <<store, heap, op, userTokens, hist, everStored, raced, ncalls>>
    /\ UNCHANGED remoteVars
    /\ UNCHANGED <<seqVars, pathVars>>

\* Revoke, lines 68-71, and the deferred Unlock
Revoke(c) ==
    /\ pc[c] = "cs"
    /\ op[c].name = "Revoke"
    /\ LET r == RevokeBody(store, heap, op[c].userId, op[c].token)
       IN /\ heap' = r.heap
          /\ ret' = [ret EXCEPT ![c] = r.ret]
    /\ Unlock(c, pc)
    /\ hist' = HistReturn(c, "Revoke", op[c].userId, op[c].token)
    /\ UNCHANGED <<store, op, userTokens, seen, everStored, raced, ncalls>>
    /\ UNCHANGED remoteVars
    /\ UNCHANGED <<seqVars, pathVars>>

\* List, lines 77-86, and the deferred Unlock
List(c) ==
    /\ pc[c] = "cs"
    /\ op[c].name = "List"
    /\ \E r \in ListBody(store, heap, op[c].userId) :
          ret' = [ret EXCEPT ![c] = r]
    /\ Unlock(c, pc)
    /\ seen' = [seen EXCEPT ![c] = hist[op[c].userId]]
    /\ UNCHANGED <<store, heap, op, userTokens, hist, everStored, raced, ncalls>>
    /\ UNCHANGED remoteVars
    /\ UNCHANGED <<seqVars, pathVars>>

\* a caller invokes one of the four operations, again and again; the
\* arguments have no part in how a call takes and releases the lock
LiveCall(c) ==
    /\ pc[c] = "idle"
    /\ \E name \in {"Store", "Lookup", "Revoke", "List"} :
        op' = [op EXCEPT ![c] =
                 [name |-> name,
                  userId |-> IF name = "Revoke" THEN "bob" ELSE "alice",
                  token |-> IF name = "List" THEN "" ELSE "tok-1"]]
    /\ pc' = [pc EXCEPT ![c] = "lock"]
    /\ ret' = [ret EXCEPT ![c] = NoResult]
    /\ seen' = [seen EXCEPT ![c] = NoTokens]
    /\ UNCHANGED <<store, heap, wOwner, readers, userTokens>>
    /\ UNCHANGED <<hist, everStored, raced, ncalls>>
    /\ UNCHANGED remoteVars
    /\ UNCHANGED <<seqVars, pathVars>>

\* the steps of caller c that no other caller can disable once it can take them
Proceed(c) ==
    \/ LockReady(c)
    \/ RLock(c)
    \/ StoreLookupUser(c)
    \/ Store(c)
    \/ Lookup(c)
    \/ Revoke(c)
    \/ List(c)

\* ------------------------------------------------------- vaultTokenStore
\* interface{} values as Vault's JSON decoding produces them
StrVal(x)  == [type |-> "string", v |-> x]
NumVal     == [type |-> "json.Number", v |-> "0"]
ListVal(x) == [type |-> "[]interface {}", v |-> x]

\* *vaultapi.Secret: nil, or a secret with its Data map
NilSecret == [isNil |-> TRUE, Data |-> EmptyMap]
Secret(d) == [isNil |-> FALSE, Data |-> d]

\* v.(string) succeeds; a missing map entry is the nil interface and fails
IsString(data, field) == field \in DOMAIN data /\ data[field].type = "string"

\* v.([]interface{}) succeeds
IsList(data, field) ==
    field \in DOMAIN data /\ data[field].type = "[]interface {}"

\* tokenPath with the format string "secret/accesstokens/%s%s"
tokenPath_NoSeparator(userId, token) ==
    "secret/accesstokens/" \o userId \o token

\* tokenPath
tokenPath(userId, token) ==
    "secret/accesstokens/" \o userId \o "/" \o token

\* the path List passes to logical.List
listPath(userId) == "secret/accesstokens/" \o userId

\* the request each method sends: logical.Write / Read / Delete / List
VaultRequest(name, userId, token) ==
    CASE name = "Store" ->
            [kind |-> "Write", path |-> tokenPath(userId, token),
             data |-> [f \in {"token"} |-> StrVal(token)]]
      [] name = "Lookup" ->
            [kind |-> "Read", path |-> tokenPath(userId, token),
             data |-> EmptyMap]
      [] name = "Revoke" ->
            [kind |-> "Delete", path |-> tokenPath(userId, token),
             data |-> EmptyMap]
      [] OTHER ->
            [kind |-> "List", path |-> listPath(userId), data |-> EmptyMap]

Returned(val, e) == [outcome |-> "returned", val |-> val, err |-> e]
Panic(why)       == [outcome |-> "panic", val |-> why, err |-> Nil]

\* vaultTokenStore.Store, lines 117-118
VaultStoreReturn(r) == Returned(Nil, r.err)

\* VaultLookupReturn taking a failed read for an absent token
VaultLookupReturn_ErrAsNotFound(r) ==
    IF r.err # Nil \/ r.secret.isNil THEN Returned("", Nil)
    ELSE IF ~IsString(r.secret.Data, "token") THEN Panic("interface conversion")
    ELSE Returned(r.secret.Data["token"].v, Nil)

\* vaultTokenStore.Lookup, lines 122-126
VaultLookupReturn(r) ==
    IF r.err # Nil THEN Returned("", r.err)
    ELSE IF r.secret.isNil THEN Panic("nil pointer dereference")
    ELSE IF ~IsString(r.secret.Data, "token") THEN Panic("interface conversion")
    ELSE Returned(r.secret.Data["token"].v, Nil)

\* vaultTokenStore.Revoke, lines 130-131
VaultRevokeReturn(r) == Returned(Nil, r.err)

\* vaultTokenStore.List, lines 135-145
VaultListReturn(r) ==
    IF r.err # Nil THEN Returned(NilSlice, r.err)
    ELSE IF r.secret.isNil THEN Panic("nil pointer dereference")
    ELSE IF ~IsList(r.secret.Data, "keys") THEN Panic("interface conversion")
    ELSE LET keys == r.secret.Data["keys"].v
         IN IF \E i \in 1..Len(keys) : keys[i].type # "string"
            THEN Panic("interface conversion")
            ELSE Returned([isNil |-> FALSE,
                           items |-> [i \in 1..Len(keys) |-> keys[i].v]], Nil)

VaultReturn(name, r) ==
    CASE name = "Store"  -> VaultStoreReturn(r)
      [] name = "Lookup" -> VaultLookupReturn(r)
      [] name = "Revoke" -> VaultRevokeReturn(r)
      [] OTHER           -> VaultListReturn(r)

\* ---------------------------------------------------- the secret service
\* the child keys the service lists under a directory path
Children(vlt, path) == {k \in RTokens : (path \o "/" \o k) \in DOMAIN vlt}

\* the service's state after a request it serves
Served(vlt, q) ==
    CASE q.kind = "Write"  -> MapPut(vlt, q.path, q.data)
      [] q.kind = "Delete" -> MapDelete(vlt, q.path)
      [] OTHER             -> vlt

\* the answers of a service that serves the request: a read or list of a path
\* that does not exist answers no secret and no error
Answers(vlt, q) ==
    CASE q.kind = "Read" /\ q.path \in DOMAIN vlt ->
            {[secret |-> Secret(vlt[q.path]), err |-> Nil]}
      [] q.kind = "List" /\ Children(vlt, q.path) # {} ->
            {[secret |-> Secret([f \in {"keys"} |->
                            ListVal([i \in 1..Len(s) |-> StrVal(s[i])])]),
              err |-> Nil] : s \in RangeOrders(Children(vlt, q.path))}
      [] OTHER -> {[secret |-> NilSecret, err |-> Nil]}

\* payloads that lack the expected field or hold a value of the wrong type
Malformed(q) ==
    IF q.kind = "Read"
    THEN {[secret |-> Secret(EmptyMap), err |-> Nil],
          [secret |-> Secret([f \in {"token"} |-> NumVal]), err |-> Nil]}
    ELSE {[secret |-> Secret(EmptyMap), err |-> Nil],
          [secret |-> Secret([f \in {"keys"} |-> StrVal("tok-1")]),
           err |-> Nil],
          [secret |-> Secret([f \in {"keys"} |-> ListVal(<<NumVal>>)]),
           err |-> Nil]}

\* a method of vaultTokenStore is called and sends its one request
VaultCall ==
    /\ rpc = "idle"
    /\ \E name \in {"Store", "Lookup", "Revoke", "List"}, userId \in Users,
          token \in RTokens \cup {""} :
        /\ (name = "List") = (token = "")
        /\ rop' = [name |-> name, userId |-> userId, token |-> token]
        /\ req' = VaultRequest(name, userId, token)
    /\ rpc' = "request"
    /\ svcCalls' = 1
    /\ resp' = NoResult
    /\ rret' = NoResult
    /\ UNCHANGED <<vault, lret>>
    /\ UNCHANGED localVars
    /\ UNCHANGED histVars
    /\ UNCHANGED <<seqVars, pathVars>>

\* the service serves the request
ServiceServe ==
    /\ rpc = "request"
    /\ vault' = Served(vault, req)
    /\ \E a \in Answers(vault, req) : resp' = a
    /\ rpc' = "response"
    /\ UNCHANGED <<rop, req, svcCalls, rret, lret>>
    /\ UNCHANGED localVars
    /\ UNCHANGED histVars
    /\ UNCHANGED <<seqVars, pathVars>>

\* the request fails at transport or authentication level
ServiceFail ==
    /\ rpc = "request"
    /\ \E e \in Errors : resp' = [secret |-> NilSecret, err |-> e]
    /\ rpc' = "response"
    /\ UNCHANGED <<vault, rop, req, svcCalls, rret, lret>>
    /\ UNCHANGED localVars
    /\ UNCHANGED histVars
    /\ UNCHANGED <<seqVars, pathVars>>

\* the service answers a read or a list with a malformed payload
ServiceMalformed ==
    /\ rpc = "request"
    /\ req.kind \in {"Read", "List"}
    /\ \E a \in Malformed(req) : resp' = a
    /\ rpc' = "response"
    /\ UNCHANGED <<vault, rop, req, svcCalls, rret, lret>>
    /\ UNCHANGED localVars
    /\ UNCHANGED histVars
    /\ UNCHANGED <<seqVars, pathVars>>

\* the method handles the answer: it returns, or panics and ends the process
VaultDone ==
    /\ rpc = "response"
    /\ rret' = VaultReturn(rop.name, resp)
    /\ rpc' = IF rret'.outcome = "panic" THEN "crashed" ELSE "idle"
    /\ UNCHANGED <<vault, rop, req, resp, svcCalls, lret>>
    /\ UNCHANGED localVars
    /\ UNCHANGED histVars
    /\ UNCHANGED <<seqVars, pathVars>>

RemoteNext ==
    \/ VaultCall
    \/ ServiceServe
    \/ ServiceFail
    \/ ServiceMalformed
    \/ VaultDone

\* ------------------------------------- both implementations, call by call
\* a whole inMemoryTokenStore method run by a single caller: its results
LocalApply(name, st, hp, userId, token) ==
    CASE name = "Store" ->
            LET f == StoreFind(st, hp, userId)
                r == StoreCommit(st, f.heap, f.userTokens, userId, token)
            IN {r}
      [] name = "Lookup" ->
            {[store |-> st, heap |-> hp,
              ret |-> LookupBody(st, hp, userId, token)]}
      [] name = "Revoke" ->
            {[store |-> st, heap |-> RevokeBody(st, hp, userId, token).heap,
              ret |-> RevokeBody(st, hp, userId, token).ret]}
      [] OTHER ->
            {[store |-> st, heap |-> hp, ret |-> r] :
                r \in ListBody(st, hp, userId)}

\* the same call made on an inMemoryTokenStore and on a vaultTokenStore whose
\* secret service serves every request
Both(name) ==
    /\ rpc = "idle"
    /\ \E userId \in Users, token \in RTokens \cup {""} :
        /\ (name = "List") = (token = "")
        /\ rop' = [name |-> name, userId |-> userId, token |-> token]
        /\ req' = VaultRequest(name, userId, token)
        /\ \E l \in LocalApply(name, store, heap, userId, token) :
            /\ store' = l.store
            /\ heap' = l.heap
            /\ lret' = l.ret
        /\ vault' = Served(vault, req')
        /\ \E a \in Answers(vault, req') :
            /\ resp' = a
            /\ rret' = VaultReturn(name, a)
    /\ svcCalls' = 1
    /\ rpc' = IF rret'.outcome = "panic" THEN "crashed" ELSE "idle"
    /\ UNCHANGED <<wOwner, readers, pc, op, userTokens, ret>>
    /\ UNCHANGED histVars
    /\ UNCHANGED <<seqVars, pathVars>>

EquivNext ==
    \/ Both("Store")
    \/ Both("Lookup")
    \/ Both("Revoke")
    \/ Both("List")

\* --------------------------------------- inMemoryTokenStore, call by call
\* ListAlloc writing every result into one buffer kept by the store
ListAlloc_SharedBuffer(arrs, items) ==
    IF arrs = <<>>
    THEN [array |-> 1, arrays |-> <<items>>]
    ELSE [array |-> 1, arrays |-> [arrs EXCEPT ![1] = items]]

\* List, lines 78-83: tokens := make([]string, len(userTokens)), then filled
ListAlloc(arrs, items) ==
    [array |-> Len(arrs) + 1, arrays |-> Append(arrs, items)]

\* the slice List hands to its caller: nil, or a view of a backing array
ListSlice(arrs, val, userId) ==
    IF val.isNil
    THEN [slice |-> NoSlice, arrays |-> arrs]
    ELSE LET a == ListAlloc(arrs, val.items)
         IN [slice |-> [isNil |-> FALSE, array |-> a.array,
                        len |-> Len(val.items), userId |-> userId],
             arrays |-> a.arrays]

\* caller c runs a whole Store, Lookup or Revoke
SeqApply(c, name) ==
    /\ ncalls < MaxCalls
    /\ ncalls' = ncalls + 1
    /\ \E userId \in SUsers, token \in STokens :
        /\ sop' = [name |-> name, userId |-> userId, token |-> token,
                   caller |-> c]
        /\ \E l \in LocalApply(name, store, heap, userId, token) :
            /\ store' = l.store
            /\ heap' = l.heap
            /\ sret' = l.ret
    /\ UNCHANGED <<arrays, held>>
    /\ UNCHANGED <<wOwner, readers, pc, op, userTokens, ret>>
    /\ UNCHANGED <<hist, seen, everStored, raced>>
    /\ UNCHANGED <<remoteVars, pathVars>>

\* caller c runs a whole List and keeps the slice it returns
SeqList(c) ==
    /\ ncalls < MaxCalls
    /\ ncalls' = ncalls + 1
    /\ \E userId \in SUsers :
        /\ sop' = [name |-> "List", userId |-> userId, token |-> "",
                   caller |-> c]
        /\ \E l \in LocalApply("List", store, heap, userId, "") :
            LET r == ListSlice(arrays, l.ret.val, userId)
            IN /\ arrays' = r.arrays
               /\ held' = [held EXCEPT ![c] = r.slice]
               /\ sret' = [val |-> r.slice, err |-> l.ret.err]
    /\ UNCHANGED <<store, heap>>
    /\ UNCHANGED <<wOwner, readers, pc, op, userTokens, ret>>
    /\ UNCHANGED <<hist, seen, everStored, raced>>
    /\ UNCHANGED <<remoteVars, pathVars>>

\* caller c writes into the slice List returned to it: tokens[i] = "x"
SeqWrite(c) ==
    /\ held[c].array # 0
    /\ \E i \in 1..held[c].len :
        /\ arrays[held[c].array][i] # "x"
        /\ arrays' = [arrays EXCEPT ![held[c].array][i] = "x"]
    /\ sop' = [name |-> "Write", userId |-> held[c].userId, token |-> "x",
               caller |-> c]
    /\ UNCHANGED <<store, heap, held, sret>>
    /\ UNCHANGED <<wOwner, readers, pc, op, userTokens, ret>>
    /\ UNCHANGED histVars
    /\ UNCHANGED <<remoteVars, pathVars>>

SeqNext ==
    \E c \in Callers :
        \/ SeqApply(c, "Store")
        \/ SeqApply(c, "Lookup")
        \/ SeqApply(c, "Revoke")
        \/ SeqList(c)
        \/ SeqWrite(c)

\* the vaultTokenStore side before its first call
RemoteIdle ==
    /\ vault = [p \in {} |-> EmptyMap]
    /\ rpc = "idle"
    /\ rop = NoOp
    /\ req = NoOp
    /\ resp = NoResult
    /\ svcCalls = 0
    /\ rret = NoResult
    /\ lret = NoResult

\* --------------------------------------------------- tokenPath on its own
\* tokenPath applied to the two (userId, token) pairs of pin
ApplyTokenPath ==
    /\ pout = <<>>
    /\ pout' = <<tokenPath(pin[1].userId, pin[1].token),
                 tokenPath(pin[2].userId, pin[2].token)>>
    /\ UNCHANGED pin
    /\ UNCHANGED localVars
    /\ UNCHANGED histVars
    /\ UNCHANGED remoteVars
    /\ UNCHANGED seqVars

\* ---------------------------------------------------------- specification
Init ==
    /\ store = NewInMemoryTokenStore.store
    /\ heap = NewInMemoryTokenStore.heap
    /\ wOwner = 0
    /\ readers = {}
    /\ pc = [c \in Callers |-> "idle"]
    /\ op = [c \in Callers |-> NoOp]
    /\ userTokens = [c \in Callers |-> 0]
    /\ ret = [c \in Callers |-> NoResult]
    /\ hist = [u \in Users |-> NoTokens]
    /\ seen = [c \in Callers |-> NoTokens]
    /\ everStored = {}
    /\ raced = [c \in Callers |-> FALSE]
    /\ ncalls = 0
    /\ RemoteIdle
    /\ arrays = <<>>
    /\ held = [c \in Callers |-> NoSlice]
    /\ sop = NoCall
    /\ sret = NoResult
    /\ pin = <<>>
    /\ pout = <<>>

Next ==
    \E c \in Callers :
        \/ Call(c)
        \/ Lock(c)
        \/ LockReady(c)
        \/ RLock(c)
        \/ StoreLookupUser(c)
        \/ Store(c)
        \/ Lookup(c)
        \/ Revoke(c)
        \/ List(c)

Spec == Init /\ [][Next]_vars

SpecRemote == Init /\ [][RemoteNext]_vars

SpecEquiv == Init /\ [][EquivNext]_vars

SpecSeq == Init /\ [][SeqNext]_vars

LiveNext ==
    \E c \in Callers :
        \/ LiveCall(c)
        \/ Lock(c)
        \/ LockReady(c)
        \/ RLock(c)
        \/ StoreLookupUser(c)
        \/ Store(c)
        \/ Lookup(c)
        \/ Revoke(c)
        \/ List(c)

\* the scheduler runs every goroutine that can run, and sync.Mutex hands the
\* writer side to a caller that keeps waiting for it (starvation mode)
Fairness ==
    \A c \in Callers : WF_vars(Proceed(c)) /\ SF_vars(Lock(c))

SpecLive == Init /\ [][LiveNext]_vars /\ Fairness

\* two (userId, token) pairs, any strings of PUsers and PTokens
PathInit ==
    /\ store = NewInMemoryTokenStore.store
    /\ heap = NewInMemoryTokenStore.heap
    /\ wOwner = 0
    /\ readers = {}
    /\ pc = [c \in Callers |-> "idle"]
    /\ op = [c \in Callers |-> NoOp]
    /\ userTokens = [c \in Callers |-> 0]
    /\ ret = [c \in Callers |-> NoResult]
    /\ hist = [u \in Users |-> NoTokens]
    /\ seen = [c \in Callers |-> NoTokens]
    /\ everStored = {}
    /\ raced = [c \in Callers |-> FALSE]
    /\ ncalls = 0
    /\ RemoteIdle
    /\ arrays = <<>>
    /\ held = [c \in Callers |-> NoSlice]
    /\ sop = NoCall
    /\ sret = NoResult
    /\ pin \in {<<[userId |-> u1, token |-> t1], [userId |-> u2, token |-> t2]>> :
                   u1 \in PUsers, t1 \in PTokens, u2 \in PUsers, t2 \in PTokens}
    /\ pout = <<>>

PathNext == ApplyTokenPath

SpecPath == PathInit /\ [][PathNext]_vars

\* ------------------------------------------------------------- properties
\* caller c's call of `name` has returned
Done(c, name) == pc[c] = "idle" /\ op[c].name = name

\* the registry as its callers can observe it: userId -> token map
Registry == [u \in DOMAIN store |-> heap[store[u]]]

\* the number of occurrences of token in a returned slice
Occurrences(slice, token) ==
    Cardinality({i \in 1..Len(slice.items) : slice.items[i] = token})

\* C1: a Lookup(u,t) that reads the map after a Store(u,t) has returned and
\* before any Revoke(u,t) is called returns exactly t and a nil error.
C1_StoreThenLookup ==
    \A c \in Callers :
        (Done(c, "Lookup") /\ IsStored(seen[c][op[c].token]))
            => ret[c] = [val |-> op[c].token, err |-> Nil]

C1_Witness ==
    \E c \in Callers :
        /\ Done(c, "Lookup") /\ op[c].token = "tok-1"
        /\ IsStored(seen[c]["tok-1"])
        /\ ret[c].val = "tok-1"

\* C2: once Revoke(u,t) has returned and until a Store(u,t) is called, every
\* Lookup(u,t) returns "" with a nil error and every List(u) omits t, whether
\* or not t or u was stored before.
C2_RevokedStaysAbsent ==
    \A c \in Callers :
        /\ (Done(c, "Lookup") /\ seen[c][op[c].token] = "revoked")
              => ret[c] = [val |-> "", err |-> Nil]
        /\ Done(c, "List")
              => \A t \in Tokens :
                    seen[c][t] = "revoked" => t \notin Items(ret[c].val)

C2_Witness ==
    \E c \in Callers :
        /\ Done(c, "Lookup") /\ op[c].token = "tok-1"
        /\ seen[c]["tok-1"] = "revoked"
        /\ op[c].userId \in DOMAIN store
        /\ heap[store[op[c].userId]] = EmptyMap
        /\ ret[c].val = ""

\* C3: Store is idempotent: a Store(u,t) that finds t already in u's map
\* leaves the registry as it was, and List(u) never returns a duplicate and
\* returns exactly one occurrence of a token that was stored (twice).
C3_ListNoDuplicates ==
    \A c \in Callers :
        Done(c, "List") =>
            \A t \in Tokens :
                /\ Occurrences(ret[c].val, t) <= 1
                /\ IsStored(seen[c][t]) => Occurrences(ret[c].val, t) = 1

C3_StoreAgainNoChange ==
    \A c \in Callers :
        ( /\ pc[c] = "cs2" /\ pc'[c] = "idle"
          /\ op[c].userId \in DOMAIN Registry
          /\ op[c].token \in DOMAIN Registry[op[c].userId] )
            => Registry' = Registry

C3_StoreIdempotent == []C3_ListNoDuplicates /\ [][C3_StoreAgainNoChange]_vars

C3_Witness ==
    \E c \in Callers :
        /\ Done(c, "List")
        /\ seen[c]["tok-1"] = "stored2"
        /\ ret[c].val.items = <<"tok-1">>

\* C4: when Stores of distinct tokens under one user run concurrently, racing
\* to create the user's map, every one of them that has returned (with no
\* Revoke called) is in what List(u) returns: no write is lost.
C4_NoLostStore ==
    \A c \in Callers :
        Done(c, "List") =>
            \A t \in Tokens : IsStored(seen[c][t]) => t \in Items(ret[c].val)

C4_Witness ==
    \E c, d \in Callers :
        /\ c # d
        /\ Done(c, "List") /\ Done(d, "Store")
        /\ op[d].userId = op[c].userId
        /\ raced[d]
        /\ \A t \in Tokens : IsStored(seen[c][t])
        /\ Items(ret[c].val) = Tokens

\* C8: for a userId no Store has been called with, Lookup returns "" and List
\* returns an empty sequence, both with a nil error, and neither call changes
\* the registry or creates an entry for the user.
C8_UnknownUserIsEmpty ==
    /\ \A u \in Users \ everStored : u \notin DOMAIN store
    /\ \A c \in Callers :
        op[c].userId \notin everStored =>
            /\ Done(c, "Lookup") => ret[c] = [val |-> "", err |-> Nil]
            /\ Done(c, "List") => /\ ret[c].err = Nil
                                  /\ Len(ret[c].val.items) = 0

C8_ReadLeavesRegistry ==
    \A c \in Callers :
        ( /\ pc[c] = "cs" /\ pc'[c] = "idle"
          /\ op[c].name \in {"Lookup", "List"}
          /\ op[c].userId \notin everStored )
            => store' = store /\ heap' = heap

C8_UnknownUser == []C8_UnknownUserIsEmpty /\ [][C8_ReadLeavesRegistry]_vars

C8_Witness ==
    \E c, d \in Callers :
        /\ Done(c, "List") /\ Done(d, "Lookup")
        /\ op[c].userId = "bob" /\ op[d].userId = "bob"
        /\ everStored = {"alice"}
        /\ DOMAIN store = {"alice"}
        /\ ret[c].val = NilSlice
        /\ ret[d].val = ""

\* the vaultTokenStore call has ended: it returned or it panicked
RemoteDone(name) == rpc \in {"idle", "crashed"} /\ rop.name = name

\* C5: driven by the same calls, a vaultTokenStore whose secret service never
\* fails returns what an inMemoryTokenStore returns: the same token or "",
\* the same set of listed tokens, and no error.
C5_BackendsInterchangeable ==
    rop.name # "none" =>
        /\ rret.outcome = "returned"
        /\ rret.err = Nil /\ lret.err = Nil
        /\ rop.name = "Lookup" => rret.val = lret.val
        /\ rop.name = "List" => Items(rret.val) = Items(lret.val)

\* C6: vaultTokenStore.Lookup of a path the service reports absent (no
\* secret, no error) returns "" with a nil error.
C6_LookupAbsentIsEmpty ==
    (RemoteDone("Lookup") /\ resp = [secret |-> NilSecret, err |-> Nil])
        => rret = Returned("", Nil)

\* C7: vaultTokenStore.List of a directory the service reports empty or absent
\* (no secret, no error) returns an empty sequence with a nil error.
C7_ListAbsentIsEmpty ==
    (RemoteDone("List") /\ resp = [secret |-> NilSecret, err |-> Nil])
        => /\ rret.outcome = "returned"
           /\ rret.err = Nil
           /\ Len(rret.val.items) = 0

\* C9: a malformed payload (no "token" field, no "keys" list, or a value of
\* the wrong type) makes Lookup and List return a non-nil error; the process
\* is not terminated and no success result is returned.
C9_MalformedIsError ==
    ((RemoteDone("Lookup") \/ RemoteDone("List")) /\ resp \in Malformed(req))
        => /\ rret.outcome = "returned"
           /\ rret.err # Nil

\* the zero result each method returns beside an error
ZeroResult(name) ==
    CASE name = "Lookup" -> ""
      [] name = "List"   -> NilSlice
      [] OTHER           -> Nil

\* C10: when the service call fails with a transport or authentication error
\* e, the method (Store, Lookup, Revoke or List) returns exactly e with an
\* empty result, having sent exactly one request.
C10_TransportErrorVerbatim ==
    \A name \in {"Store", "Lookup", "Revoke", "List"} :
        (RemoteDone(name) /\ resp.err # Nil)
            => /\ rret = Returned(ZeroResult(name), resp.err)
               /\ svcCalls = 1

C10_Witness ==
    /\ RemoteDone("List")
    /\ resp.err = "permission denied"
    /\ rret = Returned(NilSlice, "permission denied")
    /\ vault # [p \in {} |-> EmptyMap]

\* caller c is between acquiring the lock and releasing it
InCS(c) == pc[c] \in {"cs", "cs2"}

\* C11: Store, Revoke and List hold the lock exclusively and Lookup holds it
\* shared: while a Store, Revoke or List is in its critical section no other
\* call is in its own, and a Lookup in its critical section is a reader; two
\* Lookups can be in their critical sections together.
C11_WritersExclude ==
    \A c \in Callers :
        InCS(c) =>
            IF op[c].name = "Lookup"
            THEN c \in readers /\ \A d \in Callers : InCS(d) => op[d].name = "Lookup"
            ELSE /\ wOwner = c /\ readers = {}
                 /\ \A d \in Callers \ {c} : ~InCS(d)

C11_Witness ==
    \E c, d \in Callers :
        /\ c # d
        /\ InCS(c) /\ op[c].name = "Lookup"
        /\ InCS(d) /\ op[d].name = "Lookup"
        /\ readers = {c, d}

\* the step is caller c writing into its own returned slice
WriteBy(c) == sop'.name = "Write" /\ sop'.caller = c /\ arrays' # arrays

\* C12: the sequence List returned is a snapshot: no later Store or Revoke
\* (nor any other call, by any caller) changes its contents or length, and a
\* caller's write into its returned sequence changes neither the registry nor
\* another caller's sequence.
C12_ReturnedUnchanged ==
    \A c \in Callers :
        held[c].array # 0 =>
            \/ arrays'[held[c].array] = arrays[held[c].array]
            \/ WriteBy(c)

C12_WriteLeavesRegistry ==
    (\E c \in Callers : WriteBy(c)) => store' = store /\ heap' = heap

C12_ListIsSnapshot ==
    [][C12_ReturnedUnchanged /\ C12_WriteLeavesRegistry]_vars

C12_Witness ==
    \E c \in Callers :
        /\ held[c].array # 0 /\ held[c].len = 1
        /\ arrays[held[c].array] = <<"tok-1">>
        /\ sop.name = "Revoke" /\ sop.userId = held[c].userId
        /\ Registry[held[c].userId] = EmptyMap

\* token is in userId's map
Present(userId, token) ==
    userId \in DOMAIN store /\ token \in DOMAIN heap[store[userId]]

\* every Lookup and List result is the same before and after the step
SameResults ==
    \A u \in Users :
        /\ ListBody(store', heap', u) = ListBody(store, heap, u)
        /\ \A t \in Tokens :
              LookupBody(store', heap', u, t) = LookupBody(store, heap, u, t)

\* C13: Revoke(u,t) of a token that is not in u's map (u unknown included)
\* returns a nil error and leaves the registry unchanged: every Lookup and
\* List result for every user is the same before and after.
C13_RevokeAbsentStep ==
    \A c \in Callers :
        ( /\ pc[c] = "cs" /\ pc'[c] = "idle" /\ op[c].name = "Revoke"
          /\ ~Present(op[c].userId, op[c].token) )
            => /\ ret'[c] = [val |-> Nil, err |-> Nil]
               /\ store' = store /\ heap' = heap
               /\ SameResults

C13_RevokeAbsentNoOp == [][C13_RevokeAbsentStep]_vars

C13_Witness ==
    \E c \in Callers :
        /\ Done(c, "Revoke")
        /\ op[c].userId \notin everStored
        /\ ret[c].err = Nil
        /\ \E u \in DOMAIN store : heap[store[u]] # EmptyMap

\* C14: under fair scheduling every invoked Store, Lookup, Revoke or List
\* acquires the lock and returns (a writer is not starved by a stream of
\* Lookups), and the lock is free whenever no call is in progress.
C14_LockFreeWhenIdle ==
    (\A c \in Callers : pc[c] = "idle") => wOwner = 0 /\ readers = {}

C14_EveryCallReturns ==
    /\ \A c \in Callers : (pc[c] # "idle") ~> (pc[c] = "idle")
    /\ []C14_LockFreeWhenIdle

C14_Witness ==
    \E c, d \in Callers :
        /\ pc[c] = "wwait" /\ wOwner = c
        /\ pc[d] = "cs" /\ op[d].name = "Lookup" /\ d \in readers
        /\ ret[d] = NoResult

\* C15: every inMemoryTokenStore operation returns a nil error, for every
\* input (empty userId and empty token included) and in every state.
C15_NoErrorOutcome ==
    sop.name \in {"Store", "Lookup", "Revoke", "List"} => sret.err = Nil

C15_Witness ==
    /\ sop.name = "Store" /\ sop.userId = "" /\ sop.token = ""
    /\ sret.err = Nil
    /\ "" \in DOMAIN store /\ "" \in DOMAIN heap[store[""]]

\* the request a vaultTokenStore method sends, with its paths under root
SendsUnder(root) ==
    /\ rop.name = "Store" =>
        /\ req.kind = "Write"
        /\ req.path = root \o rop.userId \o "/" \o rop.token
        /\ req.data = [f \in {"token"} |-> StrVal(rop.token)]
    /\ rop.name = "Lookup" =>
        /\ req.kind = "Read"
        /\ req.path = root \o rop.userId \o "/" \o rop.token
    /\ rop.name = "Revoke" =>
        /\ req.kind = "Delete"
        /\ req.path = root \o rop.userId \o "/" \o rop.token
    /\ rop.name = "List" =>
        /\ req.kind = "List"
        /\ req.path = root \o rop.userId

\* C16 as stated: Store, Lookup and Revoke address the secret service at
\* exactly "accesstokens/" + u + "/" + t and List at "accesstokens/" + u, and
\* Store writes the payload {token: t}.
C16_PathsAsStated == SendsUnder("accesstokens/")

\* C16: Store, Lookup and Revoke address the secret service at exactly
\* "secret/accesstokens/" + u + "/" + t and List at "secret/accesstokens/" + u,
\* and Store writes the payload {token: t} there.
C16_PathsUnderSecret == SendsUnder("secret/accesstokens/")

C16_Witness ==
    /\ RemoteDone("Store")
    /\ rop.userId = "alice" /\ rop.token = "tok-1"
    /\ req.path = "secret/accesstokens/alice/tok-1"
    /\ "secret/accesstokens/alice/tok-1" \in DOMAIN vault
    /\ vault["secret/accesstokens/alice/tok-1"]
         = [f \in {"token"} |-> StrVal("tok-1")]

\* token is in userId's map of the registry (st, hp)
Member(st, hp, userId, token) ==
    userId \in DOMAIN st /\ token \in DOMAIN hp[st[userId]]

\* caller c's Store or Revoke takes effect and returns in this step
Commits(c) ==
    /\ pc[c] \in {"cs", "cs2"} /\ pc'[c] = "idle"
    /\ op[c].name \in {"Store", "Revoke"}

\* C17: a Store(u,t) or Revoke(u,t) changes only the membership of t in u's
\* map: for every other pair (u',t') membership and the result of
\* Lookup(u',t') are as before, and for every u' # u so is the result of
\* List(u'); no other step changes any of them.
C17_FrameStep ==
    \/ store' = store /\ heap' = heap
    \/ /\ \A u \in Users, t \in Tokens :
            (\/ Member(store', heap', u, t) # Member(store, heap, u, t)
             \/ LookupBody(store', heap', u, t) # LookupBody(store, heap, u, t))
                => \E c \in Callers :
                    Commits(c) /\ op[c].userId = u /\ op[c].token = t
       /\ \A u \in Users :
            ListBody(store', heap', u) # ListBody(store, heap, u)
                => \E c \in Callers : Commits(c) /\ op[c].userId = u

C17_UserScopesIsolated == [][C17_FrameStep]_vars

C17_Witness ==
    \E c \in Callers :
        /\ Done(c, "Revoke")
        /\ op[c].userId = "alice" /\ op[c].token = "tok-1"
        /\ hist["alice"]["tok-1"] = "revoked"
        /\ "alice" \in DOMAIN store /\ Registry["alice"] = EmptyMap
        /\ "bob" \in DOMAIN store /\ "tok-1" \in DOMAIN Registry["bob"]

\* C18: tokenPath is injective: two different (userId, token) pairs never
\* map to the same secret-service path, also when the strings contain "/".
C18_TokenPathInjective ==
    (pout # <<>> /\ pin[1] # pin[2]) => pout[1] # pout[2]

\* C19: Lookup and List agree on membership in every state: for every userId
\* and every token (the empty string included), Lookup returns a non-empty
\* result if and only if the token is among those List returns.
C19_LookupAgreesWithList ==
    \A u \in Users, t \in Tokens :
        \A l \in ListBody(store, heap, u) :
            (LookupBody(store, heap, u, t).val # "") <=> (t \in Items(l.val))

TypeOK ==
    /\ DOMAIN store \subseteq Users
    /\ \A u \in DOMAIN store : store[u] \in 1..Len(heap)
    /\ wOwner \in Callers \cup {0}
    /\ readers \subseteq Callers
====
